---- MODULE Spec2Model ----
(***************************************************************************)
(* Model of resu.Checkpoint (src/resu/resu.py): resumable, checkpointed    *)
(* execution of a callback over a list of items.                           *)
(*                                                                         *)
(* Values.  An input item is a one-element tuple <<i>>.  _encode wraps a   *)
(* value (base64 of its pickle: an injective map whose result is a bytes   *)
(* object, never equal to the value it encodes), so the marker of <<i>> is *)
(* <<0, i>> and the marker of a marker is <<0, 0, i>>.                     *)
(*                                                                         *)
(* Files.  A file is a sequence of tokens: a gzip+pickle stream of the     *)
(* list L is <<HDR>> \o L \o <<TRL>>; the zero-length file is <<>>.        *)
(* gzip.open(path, 'wb') truncates the file at once and buffers what is    *)
(* written until the writer is closed; a writer closed after another one   *)
(* has rewritten the file puts its tokens over the start of that content.  *)
(*                                                                         *)
(* Process.  One Checkpoint instance per process; record runs step by      *)
(* step (pc), SIGINT may arrive between any two steps, and a new process   *)
(* (Restart) finds the files the earlier ones left.  int(time.time()) is   *)
(* any path number: the wall clock is not monotonic.                       *)
(***************************************************************************)
EXTENDS Integers, Sequences, FiniteSets, TLC

VARIABLES
    disk,             \* path -> file content (token sequence)
    exists,           \* set of paths at which a file exists
    input_data,       \* self.input_data
    ckpt_file,        \* self.ckpt_file (None is NoPath)
    progress,         \* self.progress, the in-memory Done-List
    sigint,           \* handler installed for SIGINT: "default" or "self"
    pc,               \* position of the process / of the record call
    data,             \* record: the Work Set returned by check_progress
    results,          \* record: results
    n,                \* record: n (items completed since the start of the loop)
    checkpoint_every, \* record: checkpoint_every (the current threshold)
    wbuf,             \* tokens buffered by the loop's open gzip writer
    wkind,            \* which write of the loop is open: "periodic" or "final"
    runs,             \* number of record calls started
    calls,            \* history: items the callback was invoked on in this call
    flushes,          \* history: value of n at each periodic write of this call
    nwrites,          \* history: checkpoint writes completed in this call
    loaded,           \* history: the list check_progress read from the file
    resumed,          \* history: check_progress read a checkpoint in this call
    progress0,        \* history: Len(progress) when the loop started
    interval,         \* history: the checkpoint_every argument of this call
    status,           \* exit status of the terminated process (0: none)
    crash             \* history: the last callback failure

vars == <<disk, exists, input_data, ckpt_file, progress, sigint, pc, data,
          results, n, checkpoint_every, wbuf, wkind, runs, calls, flushes,
          nwrites, loaded, resumed, progress0, interval, status, crash>>

\* ---------------------------------------------------------------- bounds
NumItems == 2
MaxLen == 2
MaxF == 2
NumPaths == 2
MaxRuns == 2
MaxCadenceLen == 5
MaxWrites == 2
MaxRetryLen == 4

Items == {<<i>> : i \in 1..NumItems}
\* the path n stands for the file f'{n}.ckpt'
Paths == 1..NumPaths
NoPath == 0
\* None as input_data: a value that no list of items equals
NoInput == << <<>> >>
RECURSIVE SeqsUpTo(_, _)
SeqsUpTo(S, k) ==
    IF k = 0 THEN {<<>>}
    ELSE LET R == SeqsUpTo(S, k - 1)
         IN  R \cup {Append(s, x) : s \in {r \in R : Len(r) = k - 1}, x \in S}
Inputs == SeqsUpTo(Items, MaxLen)
Intervals == 1..MaxF
CadenceInputs == {[i \in 1..N |-> <<i>>] : N \in 1..MaxCadenceLen}

Range(s) == {s[k] : k \in 1..Len(s)}

\* ------------------------------------------------------- pure functions
\* base64.b64encode(pickle.dumps(x))
_encode(x) == <<0>> \o x

\* the user callback of the example scenario: item * 10
func(item) == item[1] * 10

HDR == <<-1>>
TRL == <<-2>>

\* the bytes a complete gzip.open(.., 'wb') / pickle.dump / close leaves
Stream(L) == <<HDR>> \o L \o <<TRL>>

\* a writer positioned at offset 0 flushing buf over the file content c
Overlay(buf, c) ==
    [k \in 1..(IF Len(buf) > Len(c) THEN Len(buf) ELSE Len(c)) |->
        IF k <= Len(buf) THEN buf[k] ELSE c[k]]

\* gzip.open(.., 'rb') / pickle.load succeeds exactly on one complete stream
Decodable(c) ==
    /\ Len(c) >= 2
    /\ c[1] = HDR
    /\ c[Len(c)] = TRL
    /\ \A k \in 2..(Len(c) - 1) : c[k] # HDR /\ c[k] # TRL

\* ckpt_io(mode='read') on a decodable file
ReadList(c) == SubSeq(c, 2, Len(c) - 1)

\* the markers of a list of items
MarkersOf(s) == [i \in 1..Len(s) |-> _encode(s[i])]

\* the list comprehension of check_progress
Filter(inp, prog) == SelectSeq(inp, LAMBDA x : _encode(x) \notin Range(prog))

\* self.progress after the re-encoding loop of check_progress
RECURSIVE Reencode(_, _)
Reencode(prog, L) ==
    IF L = <<>> THEN prog
    ELSE Reencode(Append(prog, _encode(Head(L))), Tail(L))

NoCrash == [valid |-> FALSE, resuming |-> FALSE, k |-> 0, data |-> <<>>,
            ckpt |-> NoPath, input |-> <<>>]

IdlePcs == {"idle", "returned", "nothing", "raised", "failed"}
LoopPcs == {"loop", "callback", "mark", "check", "w_dump"}
\* after a call of ckpt_io made by the user of the instance
IOPcs == {"written", "read"}

\* ------------------------------------------------------------------ Init
\* a process in which no record call has been made yet
NoCall ==
    /\ pc = "idle"
    /\ data = <<>>
    /\ results = <<>>
    /\ n = 0
    /\ checkpoint_every = 0
    /\ wbuf = <<>>
    /\ wkind = "none"
    /\ runs = 0
    /\ calls = <<>>
    /\ flushes = <<>>
    /\ nwrites = 0
    /\ loaded = <<>>
    /\ resumed = FALSE
    /\ progress0 = 0
    /\ interval = 0
    /\ status = 0
    /\ crash = NoCrash

\* Checkpoint() in a new process, on a machine with no checkpoint file
Init ==
    /\ disk = [p \in Paths |-> <<>>]
    /\ exists = {}
    /\ input_data = NoInput
    /\ ckpt_file = NoPath
    /\ progress = <<>>
    /\ sigint = "default"
    /\ NoCall

locals == <<data, results, n, checkpoint_every, wbuf, wkind>>
history == <<calls, flushes, nwrites, loaded, resumed, progress0, interval>>
files == <<disk, exists>>

\* ----------------------------------------------------- between the calls
\* the frame of a finished record call is gone once the caller moves on
Forget ==
    /\ pc' = "idle"
    /\ data' = <<>>
    /\ results' = <<>>
    /\ n' = 0
    /\ checkpoint_every' = 0
    /\ wbuf' = <<>>
    /\ wkind' = "none"
    /\ calls' = <<>>
    /\ flushes' = <<>>
    /\ nwrites' = 0
    /\ loaded' = <<>>
    /\ resumed' = FALSE
    /\ progress0' = 0
    /\ interval' = 0

\* the last callback failure is remembered while the instance in use is given
\* nothing but the input and the checkpoint path of the failed call
Keep(c, inp, path) ==
    IF c.valid /\ inp \in {NoInput, c.input} /\ path \in {NoPath, c.ckpt}
    THEN c ELSE NoCrash

insert(inp) ==
    /\ pc \in IdlePcs
    /\ input_data' = inp
    /\ Forget
    /\ crash' = Keep(crash, inp, ckpt_file)
    /\ UNCHANGED <<files, ckpt_file, progress, sigint, runs, status>>

resume(path) ==
    /\ pc \in IdlePcs
    /\ ckpt_file' = path
    /\ Forget
    /\ crash' = Keep(crash, input_data, path)
    /\ UNCHANGED <<files, input_data, progress, sigint, runs, status>>

\* a new process constructs Checkpoint(): the files persist, nothing else does
Restart ==
    /\ pc \in IdlePcs \cup {"exited"}
    /\ input_data' = NoInput
    /\ ckpt_file' = NoPath
    /\ progress' = <<>>
    /\ sigint' = "default"
    /\ Forget
    /\ status' = 0
    /\ crash' = Keep(crash, NoInput, NoPath)
    /\ UNCHANGED <<files, runs>>

\* ------------------------------------------------------- check_progress
\* the path check_progress leaves in self.ckpt_file; t is int(time.time())
PlanPath(t) == IF ckpt_file = NoPath THEN t ELSE ckpt_file

\* variant: a missing checkpoint file is treated like a fresh start
PlanFailsFallback ==
    /\ ckpt_file # NoPath
    /\ ckpt_file \in exists
    /\ ~Decodable(disk[ckpt_file])

\* check_progress raises before the input is looked at: FileNotFoundError, or
\* the read of ckpt_io fails
PlanFails ==
    /\ ckpt_file # NoPath
    /\ \/ ckpt_file \notin exists
       \/ ~Decodable(disk[ckpt_file])

\* the list read from the checkpoint file (nothing is read on a fresh start)
PlanLoaded == IF ckpt_file = NoPath THEN <<>> ELSE ReadList(disk[ckpt_file])

\* check_progress as a whole; work is the list it returns (iterating over
\* None raises once the checkpoint path has been dealt with)
check_progress(work, t) ==
    /\ ~PlanFails
    /\ ckpt_file' = PlanPath(t)
    /\ exists' = exists \cup {PlanPath(t)}
    /\ disk' = disk
    /\ progress' = Reencode(progress, PlanLoaded)
    /\ work = IF input_data = NoInput THEN <<>> ELSE Filter(input_data, progress')

\* ----------------------------------------------------------------- record
\* variant: the handler is installed before the Work Set is looked at
RecordStartArmed(F, t) ==
    /\ pc \in IdlePcs
    /\ runs < MaxRuns
    /\ runs' = runs + 1
    /\ results' = <<>>
    /\ n' = 0
    /\ checkpoint_every' = F
    /\ wbuf' = <<>>
    /\ wkind' = "none"
    /\ calls' = <<>>
    /\ flushes' = <<>>
    /\ nwrites' = 0
    /\ interval' = F
    /\ crash' = IF crash.valid /\ ckpt_file = crash.ckpt /\ input_data = crash.input
                THEN [crash EXCEPT !.valid = FALSE, !.resuming = TRUE]
                ELSE NoCrash
    /\ IF PlanFails
       THEN /\ pc' = "failed"
            /\ data' = <<>>
            /\ loaded' = <<>>
            /\ resumed' = FALSE
            /\ progress0' = Len(progress)
            /\ UNCHANGED <<files, ckpt_file, progress, sigint>>
       ELSE /\ check_progress(data', t)
            /\ loaded' = PlanLoaded
            /\ resumed' = (ckpt_file # NoPath)
            /\ progress0' = Len(progress')
            /\ CASE input_data = NoInput -> pc' = "failed" /\ sigint' = sigint
                 [] data' = <<>> -> pc' = "nothing" /\ sigint' = "self"
                 [] OTHER -> pc' = "loop" /\ sigint' = "self"
    /\ UNCHANGED <<input_data, status>>

\* record(func, checkpoint_every=F) up to the start of the loop, called when
\* the wall clock reads t
RecordStart(F, t) ==
    /\ pc \in IdlePcs
    /\ runs < MaxRuns
    /\ runs' = runs + 1
    /\ results' = <<>>
    /\ n' = 0
    /\ checkpoint_every' = F
    /\ wbuf' = <<>>
    /\ wkind' = "none"
    /\ calls' = <<>>
    /\ flushes' = <<>>
    /\ nwrites' = 0
    /\ interval' = F
    /\ crash' = IF crash.valid /\ ckpt_file = crash.ckpt /\ input_data = crash.input
                THEN [crash EXCEPT !.valid = FALSE, !.resuming = TRUE]
                ELSE NoCrash
    /\ IF PlanFails
       THEN /\ pc' = "failed"
            /\ data' = <<>>
            /\ loaded' = <<>>
            /\ resumed' = FALSE
            /\ progress0' = Len(progress)
            /\ UNCHANGED <<files, ckpt_file, progress, sigint>>
       ELSE /\ check_progress(data', t)
            /\ loaded' = PlanLoaded
            /\ resumed' = (ckpt_file # NoPath)
            /\ progress0' = Len(progress')
            /\ CASE input_data = NoInput -> pc' = "failed" /\ sigint' = sigint
                 [] data' = <<>> -> pc' = "nothing" /\ sigint' = sigint
                 [] OTHER -> pc' = "loop" /\ sigint' = "self"
    /\ UNCHANGED <<input_data, status>>

\* variant: the items are taken from the end of the Work Set
CallbackStartReversed ==
    /\ pc = "loop"
    /\ n < Len(data)
    /\ calls' = Append(calls, data[Len(data) - n])
    /\ pc' = "callback"
    /\ UNCHANGED <<files, input_data, ckpt_file, progress, sigint,
                   locals, runs, flushes, nwrites, loaded, resumed, progress0,
                   interval, status, crash>>

\* for n, item in iterable: func(item) is entered
CallbackStart ==
    /\ pc = "loop"
    /\ n < Len(data)
    /\ calls' = Append(calls, data[n + 1])
    /\ pc' = "callback"
    /\ UNCHANGED <<files, input_data, ckpt_file, progress, sigint,
                   locals, runs, flushes, nwrites, loaded, resumed, progress0,
                   interval, status, crash>>

\* results.append(func(item))
CallbackReturn ==
    /\ pc = "callback"
    /\ results' = Append(results, func(data[n + 1]))
    /\ pc' = "mark"
    /\ UNCHANGED <<files, input_data, ckpt_file, progress, sigint,
                   data, n, checkpoint_every, wbuf, wkind, runs, history,
                   status, crash>>

\* variant: the failing item is marked as done before the error propagates
CallbackRaiseMarked ==
    /\ pc = "callback"
    /\ pc' = "raised"
    /\ progress' = Append(progress, _encode(data[n + 1]))
    /\ crash' = [valid |-> TRUE, resuming |-> FALSE, k |-> n + 1, data |-> data,
                 ckpt |-> ckpt_file, input |-> input_data]
    /\ UNCHANGED <<files, input_data, ckpt_file, sigint,
                   locals, runs, history, status>>

\* func(item) raises: nothing in record catches it
CallbackRaise ==
    /\ pc = "callback"
    /\ pc' = "raised"
    /\ crash' = [valid |-> TRUE, resuming |-> FALSE, k |-> n + 1, data |-> data,
                 ckpt |-> ckpt_file, input |-> input_data]
    /\ UNCHANGED <<files, input_data, ckpt_file, progress, sigint,
                   locals, runs, history, status>>

\* self.progress.append(self._encode(item)); n += 1
Mark ==
    /\ pc = "mark"
    /\ progress' = Append(progress, _encode(data[n + 1]))
    /\ n' = n + 1
    /\ pc' = "check"
    /\ UNCHANGED <<files, input_data, ckpt_file, sigint, data,
                   results, checkpoint_every, wbuf, wkind, runs, history,
                   status, crash>>

\* gzip.open(self.ckpt_file, 'wb'): the file is truncated, the writer is empty
OpenWrite(kind) ==
    /\ disk' = [disk EXCEPT ![ckpt_file] = <<>>]
    /\ exists' = exists \cup {ckpt_file}
    /\ wbuf' = <<HDR>>
    /\ wkind' = kind
    /\ pc' = "w_dump"

\* if n == checkpoint_every: the periodic write is opened
CheckFlush ==
    /\ pc = "check"
    /\ IF n = checkpoint_every
       THEN /\ OpenWrite("periodic")
            /\ flushes' = Append(flushes, n)
       ELSE /\ pc' = "loop"
            /\ UNCHANGED <<files, wbuf, wkind, flushes>>
    /\ UNCHANGED <<input_data, ckpt_file, progress, sigint, data,
                   results, n, checkpoint_every, runs, calls, nwrites, loaded,
                   resumed, progress0, interval, status, crash>>

\* variant: no final write when the last item was just flushed periodically
FinalFlushUnlessAligned ==
    /\ pc = "loop"
    /\ n = Len(data)
    /\ IF flushes # <<>> /\ flushes[Len(flushes)] = n
       THEN pc' = "returned" /\ UNCHANGED <<files, wbuf, wkind>>
       ELSE OpenWrite("final")
    /\ UNCHANGED <<input_data, ckpt_file, progress, sigint, data,
                   results, n, checkpoint_every, runs, history, status, crash>>

\* the loop is exhausted: the final write is opened
FinalFlush ==
    /\ pc = "loop"
    /\ n = Len(data)
    /\ OpenWrite("final")
    /\ UNCHANGED <<input_data, ckpt_file, progress, sigint, data,
                   results, n, checkpoint_every, runs, history, status, crash>>

\* pickle.dump(self.progress, j): one more entry reaches the writer
WriteDump ==
    /\ pc = "w_dump"
    /\ Len(wbuf) <= Len(progress)
    /\ wbuf' = Append(wbuf, progress[Len(wbuf)])
    /\ UNCHANGED <<files, input_data, ckpt_file, progress, sigint,
                   pc, data, results, n, checkpoint_every, wkind, runs,
                   history, status, crash>>

\* variant: the threshold grows by the interval instead of doubling
WriteCloseLinear ==
    /\ pc = "w_dump"
    /\ Len(wbuf) = Len(progress) + 1
    /\ disk' = [disk EXCEPT ![ckpt_file] = Overlay(Append(wbuf, TRL), @)]
    /\ wbuf' = <<>>
    /\ wkind' = "none"
    /\ nwrites' = nwrites + 1
    /\ IF wkind = "periodic"
       THEN /\ checkpoint_every' = checkpoint_every + interval
            /\ pc' = "loop"
       ELSE /\ checkpoint_every' = checkpoint_every
            /\ pc' = "returned"
    /\ UNCHANGED <<exists, input_data, ckpt_file, progress, sigint,
                   data, results, n, runs, calls, flushes, loaded, resumed,
                   progress0, interval, status, crash>>

\* variant: the threshold is never raised
WriteCloseFixed ==
    /\ pc = "w_dump"
    /\ Len(wbuf) = Len(progress) + 1
    /\ disk' = [disk EXCEPT ![ckpt_file] = Overlay(Append(wbuf, TRL), @)]
    /\ wbuf' = <<>>
    /\ wkind' = "none"
    /\ nwrites' = nwrites + 1
    /\ IF wkind = "periodic"
       THEN /\ checkpoint_every' = checkpoint_every
            /\ pc' = "loop"
       ELSE /\ checkpoint_every' = checkpoint_every
            /\ pc' = "returned"
    /\ UNCHANGED <<exists, input_data, ckpt_file, progress, sigint,
                   data, results, n, runs, calls, flushes, loaded, resumed,
                   progress0, interval, status, crash>>

\* the with block of ckpt_io(mode='write') ends: the writer is flushed and
\* closed; then checkpoint_every += checkpoint_every, or return results
WriteClose ==
    /\ pc = "w_dump"
    /\ Len(wbuf) = Len(progress) + 1
    /\ disk' = [disk EXCEPT ![ckpt_file] = Overlay(Append(wbuf, TRL), @)]
    /\ wbuf' = <<>>
    /\ wkind' = "none"
    /\ nwrites' = nwrites + 1
    /\ IF wkind = "periodic"
       THEN /\ checkpoint_every' = checkpoint_every + checkpoint_every
            /\ pc' = "loop"
       ELSE /\ checkpoint_every' = checkpoint_every
            /\ pc' = "returned"
    /\ UNCHANGED <<exists, input_data, ckpt_file, progress, sigint,
                   data, results, n, runs, calls, flushes, loaded, resumed,
                   progress0, interval, status, crash>>

\* ------------------------------------------------------------------ SIGINT
\* variant: the handler terminates the process without writing
keyboard_interrupt_handler_nowrite(prog, path) ==
    /\ UNCHANGED files
    /\ status' = 1

\* keyboard_interrupt_handler of the instance with the given fields, run on
\* top of whatever the process was doing; sys.exit(1) then unwinds the
\* interrupted frame, which closes a writer the loop had open
keyboard_interrupt_handler(prog, path) ==
    /\ IF path = NoPath
       THEN UNCHANGED files
       ELSE /\ exists' = exists \cup {path}
            /\ disk' = [disk EXCEPT ![path] =
                          IF pc = "w_dump"
                          THEN Overlay(Append(wbuf, TRL), Stream(prog))
                          ELSE Stream(prog)]
    /\ status' = 1

\* the interrupt signal arrives
Interrupt ==
    /\ pc # "exited"
    /\ CASE sigint = "self" -> keyboard_interrupt_handler(progress, ckpt_file)
         [] OTHER -> status' = 130 /\ UNCHANGED files
    /\ pc' = "exited"
    /\ UNCHANGED <<input_data, ckpt_file, progress, sigint, locals,
                   runs, history, crash>>

Next ==
    \/ \E inp \in Inputs : insert(inp)
    \/ \E path \in Paths \cup {NoPath} : resume(path)
    \/ Restart
    \/ \E F \in Intervals, t \in Paths : RecordStart(F, t)
    \/ CallbackStart
    \/ CallbackReturn
    \/ CallbackRaise
    \/ Mark
    \/ CheckFlush
    \/ FinalFlush
    \/ WriteDump
    \/ WriteClose
    \/ Interrupt

Spec == Init /\ [][Next]_vars

\* Checkpoint(inp) in a new process, or Checkpoint(inp, '1.ckpt') where that
\* file is missing or was left by the last write of an earlier process that
\* had completed the items prev; then record calls only, on that instance
InitRun ==
    /\ input_data \in Inputs
    /\ ckpt_file \in {NoPath, 1}
    /\ exists \in {{}, {ckpt_file} \ {NoPath}}
    /\ \E prev \in Inputs :
           disk = [p \in Paths |->
                     IF p \in exists THEN Stream(MarkersOf(prev)) ELSE <<>>]
    /\ progress = <<>>
    /\ sigint = "default"
    /\ NoCall

NextRun ==
    \/ \E F \in Intervals, t \in Paths : RecordStart(F, t)
    \/ CallbackStart
    \/ CallbackReturn
    \/ CallbackRaise
    \/ Mark
    \/ CheckFlush
    \/ FinalFlush
    \/ WriteDump
    \/ WriteClose
    \/ Interrupt

SpecRun == InitRun /\ [][NextRun]_vars

\* Checkpoint(inp) in a new process, inp a list of distinct items, whose
\* record calls are neither interrupted nor hit by a callback error
InitCadence ==
    /\ disk = [p \in Paths |-> <<>>]
    /\ exists = {}
    /\ input_data \in CadenceInputs
    /\ ckpt_file = NoPath
    /\ progress = <<>>
    /\ sigint = "default"
    /\ NoCall

NextCadence ==
    \/ \E F \in Intervals, t \in Paths : RecordStart(F, t)
    \/ CallbackStart
    \/ CallbackReturn
    \/ Mark
    \/ CheckFlush
    \/ FinalFlush
    \/ WriteDump
    \/ WriteClose

SpecCadence == InitCadence /\ [][NextCadence]_vars

\* Checkpoint(inp) in a new process, inp a list of MaxRetryLen items in
\* which items may repeat; then record calls only, on that instance, the
\* caller catching the error of a failed call and calling record again
RetryInputs == [1..MaxRetryLen -> Items]

InitRetry ==
    /\ disk = [p \in Paths |-> <<>>]
    /\ exists = {}
    /\ input_data \in RetryInputs
    /\ ckpt_file = NoPath
    /\ progress = <<>>
    /\ sigint = "default"
    /\ NoCall

NextRetry ==
    \/ \E F \in Intervals, t \in Paths : RecordStart(F, t)
    \/ CallbackStart
    \/ CallbackReturn
    \/ CallbackRaise
    \/ Mark
    \/ CheckFlush
    \/ FinalFlush
    \/ WriteDump
    \/ WriteClose
    \/ Interrupt

SpecRetry == InitRetry /\ [][NextRetry]_vars

\* ---------------------------------------------------- ckpt_io on its own
\* the lists self.progress can hold: markers, and markers encoded again
DoneLists ==
    SeqsUpTo({_encode(x) : x \in Items} \cup {_encode(_encode(x)) : x \in Items},
             MaxLen)

\* variant: the file is opened for appending
ckpt_io_write_append ==
    /\ pc \in {"idle"} \cup IOPcs
    /\ nwrites < MaxWrites
    /\ ckpt_file # NoPath
    /\ disk' = [disk EXCEPT ![ckpt_file] = @ \o Stream(progress)]
    /\ exists' = exists \cup {ckpt_file}
    /\ nwrites' = nwrites + 1
    /\ pc' = "written"
    /\ UNCHANGED <<input_data, ckpt_file, progress, sigint, locals, runs,
                   calls, flushes, loaded, resumed, progress0, interval,
                   status, crash>>

\* ckpt_io(mode='write') called on the instance, run to its end undisturbed:
\* gzip.open(.., 'wb') truncates, pickle.dump(self.progress), close
ckpt_io_write ==
    /\ pc \in {"idle"} \cup IOPcs
    /\ nwrites < MaxWrites
    /\ ckpt_file # NoPath
    /\ disk' = [disk EXCEPT ![ckpt_file] = Overlay(Stream(progress), <<>>)]
    /\ exists' = exists \cup {ckpt_file}
    /\ nwrites' = nwrites + 1
    /\ pc' = "written"
    /\ UNCHANGED <<input_data, ckpt_file, progress, sigint, locals, runs,
                   calls, flushes, loaded, resumed, progress0, interval,
                   status, crash>>

\* ckpt_io(mode='read') called on the instance; loaded is the list returned
\* (the call raises on a missing or undecodable file)
ckpt_io_read ==
    /\ pc \in {"idle"} \cup IOPcs
    /\ ckpt_file \in exists
    /\ Decodable(disk[ckpt_file])
    /\ loaded' = ReadList(disk[ckpt_file])
    /\ pc' = "read"
    /\ UNCHANGED <<files, input_data, ckpt_file, progress, sigint, locals,
                   runs, calls, flushes, nwrites, resumed, progress0,
                   interval, status, crash>>

\* an instance whose self.progress is some Done-List and whose checkpoint
\* path names no file or the file an earlier process left after completing
\* the items prev; then calls of ckpt_io only
InitIO ==
    /\ input_data = NoInput
    /\ ckpt_file \in Paths
    /\ exists \in {{}, {ckpt_file}}
    /\ \E prev \in Inputs :
           disk = [p \in Paths |->
                     IF p \in exists THEN Stream(MarkersOf(prev)) ELSE <<>>]
    /\ progress \in DoneLists
    /\ sigint = "default"
    /\ NoCall

NextIO ==
    \/ ckpt_io_write
    \/ ckpt_io_read

SpecIO == InitIO /\ [][NextIO]_vars

TypeOK ==
    /\ pc \in IdlePcs \cup LoopPcs \cup IOPcs \cup {"exited"}
    /\ sigint \in {"default", "self"}
    /\ n \in 0..Len(data)
    /\ ckpt_file \in Paths \cup {NoPath}

\* ------------------------------------------------------------ properties
\* the markers appended to self.progress by the loop of this call
RunMarkers == SubSeq(progress, progress0 + 1, Len(progress))

RECURSIVE Pow2(_)
Pow2(j) == IF j = 0 THEN 1 ELSE 2 * Pow2(j - 1)

\* the number of completed items for which line 130 has been evaluated
Decided == IF pc = "check" THEN n - 1 ELSE n

\* C1: resuming from a checkpoint that holds the markers of a subset S of the
\* input items, a new instance plans exactly the input items whose marker is
\* not in S, in input order.
C1_ResumeWorkSet ==
    (/\ pc \in {"loop", "nothing"}
     /\ n = 0
     /\ resumed
     /\ progress0 = Len(loaded)
     /\ Range(loaded) \subseteq {_encode(x) : x \in Range(input_data)})
    => data = SelectSeq(input_data, LAMBDA x : _encode(x) \notin Range(loaded))

\* C2: after the callback raised on the k-th item of a Work Set, a later
\* record call on the same input and checkpoint file plans the Work Set
\* that starts at the k-th item.
C2_CrashResume ==
    crash.resuming =>
        /\ pc # "failed"
        /\ data = SubSeq(crash.data, crash.k, Len(crash.data))

\* C3: when the callback raises on the k-th item the error leaves record,
\* the callback has been invoked on the first k items only, and the markers
\* appended during the call are those of the first k-1 items.
C3_CallbackFailure ==
    pc = "raised" =>
        /\ crash.valid /\ crash.k = n + 1
        /\ calls = SubSeq(data, 1, n + 1)
        /\ Len(results) = n
        /\ RunMarkers = MarkersOf(SubSeq(data, 1, n))

C3_Witness == pc = "raised" /\ n >= 1 /\ progress0 = 0

\* C4: the periodic writes of a call are opened exactly at the counts
\* F, 2F, 4F, ... of items completed since the start of the call.
C4_FlushCadence ==
    interval > 0 =>
        /\ \A j \in 1..Len(flushes) : flushes[j] = interval * Pow2(j - 1)
        /\ Len(flushes) =
             Cardinality({j \in 0..Decided : interval * Pow2(j) <= Decided})

\* input [1..5] with F = 2: periodic writes after items 2 and 4
C4_Witness ==
    pc = "returned" /\ Len(data) = 5 /\ interval = 2 /\ flushes = <<2, 4>>

\* C5 as stated: the first periodic write comes after F completed items, the
\* second 2F items after the first, the third 4F items after the second.
C5_GapsDoubleFromFirst ==
    \A j \in 1..Len(flushes) :
        j <= 3 =>
            flushes[j] - (IF j = 1 THEN 0 ELSE flushes[j - 1])
                = interval * Pow2(j - 1)

\* C5 amended: the first periodic write comes after F completed items, the
\* second F items after the first, the third 2F items after the second, and
\* each of them does come once that many items are completed.
C5_GapsFromRunStart ==
    interval > 0 =>
        /\ Len(flushes) >= 1 => flushes[1] = interval
        /\ Len(flushes) >= 2 => flushes[2] - flushes[1] = interval
        /\ Len(flushes) >= 3 => flushes[3] - flushes[2] = 2 * interval
        /\ Decided >= interval => Len(flushes) >= 1
        /\ Decided >= 2 * interval => Len(flushes) >= 2
        /\ Decided >= 4 * interval => Len(flushes) >= 3

C5_Witness == pc = "returned" /\ Len(flushes) = 3

\* C6: when record returns results, one write has followed the last item
\* (also when that item was flushed periodically), the checkpoint file
\* decodes to the whole in-memory Done-List, and the markers of the Work
\* Set items are its tail, in processing order.
C6_FinalFlush ==
    pc = "returned" =>
        /\ ckpt_file \in exists
        /\ Decodable(disk[ckpt_file])
        /\ ReadList(disk[ckpt_file]) = progress
        /\ RunMarkers = MarkersOf(data)
        /\ nwrites = Len(flushes) + 1

C6_Witness ==
    /\ pc = "returned"
    /\ flushes # <<>>
    /\ flushes[Len(flushes)] = Len(data)
    /\ resumed

\* C7: the callback is invoked on the Work Set items in order, once per
\* position and one at a time, and the results returned are the callback's
\* values position by position.
C7_OrderedResults ==
    /\ calls = SubSeq(data, 1, Len(calls))
    /\ Len(calls) - Len(results) \in {0, 1}
    /\ results = [i \in 1..Len(results) |-> func(data[i])]
    /\ pc = "returned" => Len(calls) = Len(data) /\ Len(results) = Len(data)

C7_Witness == pc = "returned" /\ Len(data) = 2 /\ data[1] # data[2]

\* C8: an interrupt that arrives in the loop while no write is open makes
\* the handler write the Done-List as it stands, the process exits with a
\* non-zero status and invokes no further callback, and the written list
\* holds, for this call, the markers of the completed items only.
C8_InterruptFlush ==
    [][/\ (pc \in {"loop", "callback", "mark", "check"} /\ pc' = "exited") =>
            /\ ckpt_file \in exists'
            /\ Decodable(disk'[ckpt_file])
            /\ ReadList(disk'[ckpt_file]) = progress
            /\ RunMarkers = MarkersOf(SubSeq(data, 1, n))
            /\ n <= Len(results)
            /\ status' # 0
            /\ calls' = calls
       /\ pc = "exited" => pc' = "idle" /\ calls' = <<>>]_vars

\* interrupted while the callback runs on the second item
C8_Witness ==
    /\ pc = "exited"
    /\ status = 1
    /\ wbuf = <<>>
    /\ ~crash.valid
    /\ n = 1
    /\ Len(calls) = 2
    /\ Len(results) = 1

\* C9: after an interrupt that arrived while a write of the loop was open,
\* the checkpoint file decodes to the whole in-memory Done-List.
C9_InterruptDuringWrite ==
    (pc = "exited" /\ wbuf # <<>>) =>
        /\ Decodable(disk[ckpt_file])
        /\ ReadList(disk[ckpt_file]) = progress

\* C10: resuming from a checkpoint that holds the markers of every input
\* item, record invokes no callback, writes nothing and returns no results.
C10_NoOpOnCompletion ==
    (/\ pc \in LoopPcs \cup {"nothing", "returned", "raised"}
     /\ resumed
     /\ Range(loaded) = {_encode(x) : x \in Range(input_data)})
    => /\ pc = "nothing"
       /\ calls = <<>>
       /\ nwrites = 0
       /\ results = <<>>

\* C11: every marker the checkpoint file held when a resuming call started
\* is still in the file, unchanged, after each completed write of that call
\* (periodic, final or by the interrupt handler).
C11_DoneListPermanence ==
    (/\ resumed
     /\ wbuf = <<>>
     /\ nwrites >= 1 \/ (pc = "exited" /\ status = 1))
    => /\ Decodable(disk[ckpt_file])
       /\ Range(loaded) \subseteq Range(ReadList(disk[ckpt_file]))

\* C12: whenever record is called on an instance that has an input and no
\* checkpoint path, whatever was done with the instance before, the call
\* generates a path, leaves an empty file there and plans the whole input as
\* the Work Set.
C12_FreshStart ==
    [][(/\ runs' = runs + 1
        /\ ckpt_file = NoPath
        /\ input_data # NoInput)
       => /\ pc' \in {"loop", "nothing"}
          /\ ckpt_file' \in Paths
          /\ ckpt_file' \in exists'
          /\ disk'[ckpt_file'] = <<>>
          /\ data' = input_data]_vars

\* C13: a record call on an instance whose checkpoint path names no file
\* fails before any callback is invoked; it creates no file, installs no
\* handler, leaves self.progress and the path as they were, and does not
\* start afresh.
C13_ResumeWithoutFile ==
    [][(/\ runs' = runs + 1
        /\ ckpt_file # NoPath
        /\ ckpt_file \notin exists)
       => /\ pc' = "failed"
          /\ calls' = <<>>
          /\ results' = <<>>
          /\ exists' = exists
          /\ disk' = disk
          /\ sigint' = sigint
          /\ progress' = progress
          /\ ckpt_file' = ckpt_file]_vars

C13_Witness ==
    /\ pc = "failed"
    /\ ckpt_file # NoPath
    /\ ckpt_file \notin exists
    /\ input_data \notin {NoInput, <<>>}

\* C14: once record has returned normally the engine's handler is no longer
\* installed: an interrupt that arrives after the return writes no checkpoint
\* file and does not end the process with the handler's exit status.
C14_HandlerLifetime ==
    [][(pc = "returned" /\ pc' = "exited")
       => /\ sigint # "self"
          /\ disk' = disk
          /\ exists' = exists
          /\ status' # 1]_vars

C16_MarkAfterCallback ==
    interval > 0 =>
        /\ Len(RunMarkers) <= Len(results)
        /\ Len(results) <= Len(calls)
        /\ RunMarkers = MarkersOf(SubSeq(data, 1, Len(RunMarkers)))
        /\ Len(calls) > Len(results) =>
               RunMarkers = MarkersOf(SubSeq(data, 1, Len(calls) - 1))

\* the callback has returned for the second item, which is not marked yet
C16_Witness ==
    /\ pc = "mark"
    /\ Len(results) = 2
    /\ Len(RunMarkers) = 1

\* C17: a record call whose Work Set is empty invokes no callback, writes
\* no checkpoint, installs no handler, returns no results and leaves the
\* content of the files as it was.
C17_EmptyWorkSet ==
    [][pc' = "nothing" =>
          /\ data' = <<>>
          /\ calls' = <<>>
          /\ results' = <<>>
          /\ nwrites' = 0
          /\ wbuf' = <<>>
          /\ disk' = disk
          /\ sigint' = sigint]_vars

\* a second call on an instance that has completed its input
C17_Witness ==
    /\ pc = "nothing"
    /\ resumed
    /\ input_data # <<>>
    /\ Decodable(disk[ckpt_file])

\* C18: when a record call that ended with a callback error is followed by
\* a call on the same input and checkpoint file that returns normally, every
\* input item has had its callback return in one of the two calls, and the
\* checkpoint file holds the marker of every input item.
C18_AtLeastOnce ==
    (crash.resuming /\ pc \in {"returned", "nothing"}) =>
        /\ Range(input_data) \subseteq
               Range(SubSeq(crash.data, 1, crash.k - 1))
                   \cup Range(SubSeq(data, 1, Len(results)))
        /\ Decodable(disk[ckpt_file])
        /\ \A x \in Range(input_data) :
               _encode(x) \in Range(ReadList(disk[ckpt_file]))

\* C19: a record call given the path of a checkpoint file that an earlier
\* call created never fails to read it: whatever way the earlier call ended,
\* the file is read as a Done-List, the zero-length placeholder as the empty
\* one.
C19_LeftFilesResumable ==
    pc = "failed" => (input_data = NoInput \/ ckpt_file \notin exists)

\* C20: in a record call started without a checkpoint path, a write being
\* taken as one step (the states inside a write and an interrupt inside a
\* write are left out), the checkpoint file is empty or decodes to a prefix
\* of self.progress, and its content changes only when a write is opened
\* (the truncation) or completed by the loop or by the handler, the completed
\* write leaving the whole of self.progress in it.
C20_DiskBehindMemory ==
    [][(/\ interval' > 0
        /\ ~resumed'
        /\ pc' \notin {"failed", "w_dump"}
        /\ ~(pc = "w_dump" /\ pc' = "exited"))
       => /\ \/ disk'[ckpt_file'] = <<>>
             \/ /\ Decodable(disk'[ckpt_file'])
                /\ Len(ReadList(disk'[ckpt_file'])) <= Len(progress')
                /\ ReadList(disk'[ckpt_file'])
                     = SubSeq(progress', 1, Len(ReadList(disk'[ckpt_file'])))
          /\ (runs' = runs /\ disk' # disk) =>
                /\ pc = "w_dump" \/ pc' = "exited"
                /\ ReadList(disk'[ckpt_file']) = progress']_vars

====
